---- MODULE Spec2Model ----
(***************************************************************************)
(* FileManagerAgent (src/file_manager_agent/agent.py): one responder       *)
(* instance, its in-memory session service, and MaxCalls invocations of    *)
(* handle_list_files that may overlap at the two await points (session     *)
(* creation, the streaming run).                                           *)
(*                                                                         *)
(* Strings are TLA+ strings.  The two user-facing literals of the source   *)
(* are not ASCII, so each is stood for by an ASCII literal:                *)
(*   NoFilesText  for  "目前沒有找到任何檔案唷！"        (agent.py:103)    *)
(*   ErrorPrefix  for  "查詢檔案時發生了一點問題："      (agent.py:109)    *)
(***************************************************************************)
EXTENDS Naturals, Sequences, FiniteSets, TLC

\* ------------------------------------------------------------------ bounds
\* Number of handle_list_files invocations on the instance.
MaxCalls == 2
\* Number of events one streaming run yields before it must end or raise,
\* for one invocation alone and for invocations that overlap.
MaxEvents == 2
MaxOverlapEvents == 1

Calls == 1..MaxCalls

\* --------------------------------------------------------------- constants
APP_NAME == "file_manager"
NoFilesText == "NO_FILES_FOUND"
ErrorPrefix == "LIST_FILES_FAILED:"
USER_PROMPT == "LIST_ALL_UPLOADED_FILES"

\* ----------------------------------------------------- constructor inputs
StoreNames == {"docs", "pics"}
Caches == { [n \in {"docs"} |-> "store_123"], [n \in {"docs", "pics"} |-> "store_9"] }
\* What the remote store holds: the FileRecords the tool provider returns.
FileRecord(n, t) == [name |-> n, uploaded_at |-> t]
StoreContents == { <<>>, << FileRecord("report.pdf", "2024-01-01") >> }

\* -------------------------------------------------------------- exceptions
\* A raised Python exception: its class and str(e).  isinstance(e, Exception)
\* is what the except clause of line 105 tests; asyncio.CancelledError
\* derives from BaseException only.
Exc(t, m) == [type |-> t, msg |-> m]
NoExc == Exc("", "")
ExceptionTypes == {"ValueError", "RuntimeError"}
IsException(e) == e.type \in ExceptionTypes
Raisable == { Exc("ValueError", "boom"), Exc("RuntimeError", ""),
              Exc("CancelledError", "cancelled") }
\* The exceptions drawn when invocations overlap.
OverlapRaisable == { Exc("ValueError", "boom"), Exc("CancelledError", "cancelled") }

\* ------------------------------------------------------------------ events
\* A part of an event's content: has_text is FALSE for a part without a text
\* attribute or with text None (a function call part).
TextPart(s) == [has_text |-> TRUE, text |-> s]
OtherPart == [has_text |-> FALSE, text |-> ""]
\* An event: has_content is FALSE when event.content is None.
Event(ps) == [has_content |-> TRUE, parts |-> ps]
EvNoContent == [has_content |-> FALSE, parts |-> <<>>]
EventSet == { EvNoContent,
              Event(<<>>),
              Event(<< TextPart("a") >>),
              Event(<< TextPart("b"), TextPart("c") >>),
              Event(<< TextPart(""), OtherPart, TextPart("b") >>),
              Event(<< TextPart(NoFilesText) >>) }
\* The events drawn when invocations overlap.
OverlapEvents == { Event(<< TextPart("a") >>) }

VARIABLES
    store_name,        \* self.store_name
    store_name_cache,  \* self.store_name_cache (the caller's dict)
    store_files,       \* the remote store's contents (the tool provider's world)
    sessions,          \* keys held by self.session_service
    pc,                \* per call: position in handle_list_files
    user_id,           \* per call: local user_id
    session,           \* per call: local session (its key)
    response_texts,    \* per call: local response_texts
    events,            \* per call: the events the streaming run has yielded
    result,            \* per call: the returned string
    exc,               \* per call: the exception raised inside the try block
    outcome,           \* per call: "none" | "return" | "raise"
    request,           \* per call: the create_session request it made
    create_count,      \* per call: number of create_session invocations
    run_count,         \* per call: number of run_async invocations
    tool_calls         \* log of the tool provider's invocations

vars == << store_name, store_name_cache, store_files, sessions, pc, user_id,
           session, response_texts, events, result, exc, outcome, request,
           create_count, run_count, tool_calls >>

\* ---------------------------------------------------------- pure functions
\* user_id = f"user_{self.store_name}"
UserId(store) == "user_" \o store
\* session_id = f"list_files_{self.store_name}"
SessionId(store) == "list_files_" \o store

SessionKey_perRequest(store) ==
    [app_name |-> APP_NAME, user_id |-> UserId(store),
     session_id |-> IF sessions = {} THEN SessionId(store)
                    ELSE SessionId(store) \o "_again"]
\* The (app_name, user_id, session_id) create_session is asked for.
SessionKey(store) ==
    [app_name |-> APP_NAME, user_id |-> UserId(store), session_id |-> SessionId(store)]
NoSession == [app_name |-> "", user_id |-> "", session_id |-> ""]
NoRequest == [key |-> NoSession, held |-> FALSE]

PartHasText_keepsEmpty(part) == part.has_text
\* hasattr(part, 'text') and part.text
PartHasText(part) == part.has_text /\ part.text # ""

\* The inner loop over event.content.parts: the texts it appends, in order.
RECURSIVE PartTexts(_)
PartTexts(parts) ==
    IF parts = <<>> THEN <<>>
    ELSE (IF PartHasText(Head(parts)) THEN << Head(parts).text >> ELSE <<>>)
         \o PartTexts(Tail(parts))

\* if event.content and event.content.parts: for part in ...: append
EventTexts(ev) ==
    IF ev.has_content /\ ev.parts # <<>> THEN PartTexts(ev.parts) ELSE <<>>

\* '\n'.join(texts)
RECURSIVE Join(_)
Join(texts) ==
    IF texts = <<>> THEN ""
    ELSE IF Len(texts) = 1 THEN Head(texts)
    ELSE Head(texts) \o "\n" \o Join(Tail(texts))

ReplyText_noFallback(texts) == Join(texts)
ReplyText_alwaysFallback(texts) == NoFilesText
\* if response_texts: return '\n'.join(response_texts) else: return fallback
ReplyText(texts) == IF texts # <<>> THEN Join(texts) ELSE NoFilesText

ErrorText_noMessage(e) == ErrorPrefix
\* f"<prefix>{str(e)}"
ErrorText(e) == ErrorPrefix \o e.msg

\* The tool provider: the FileRecords of the store named by (store, cache).
list_files_tool(store, cache) == store_files

list_files_otherCache ==
    [store |-> store_name, cache |-> [n \in {store_name} |-> "stale"]]
\* The wrapper bound at construction: the arguments it hands the tool.
list_files == [store |-> store_name, cache |-> store_name_cache]

\* ------------------------------------------------------------------- state
Init ==
    /\ store_name \in StoreNames
    /\ store_name_cache \in Caches
    /\ store_files \in StoreContents
    /\ sessions = {}
    /\ pc = [c \in Calls |-> "not_started"]
    /\ user_id = [c \in Calls |-> ""]
    /\ session = [c \in Calls |-> NoSession]
    /\ response_texts = [c \in Calls |-> <<>>]
    /\ events = [c \in Calls |-> <<>>]
    /\ result = [c \in Calls |-> ""]
    /\ exc = [c \in Calls |-> NoExc]
    /\ outcome = [c \in Calls |-> "none"]
    /\ request = [c \in Calls |-> NoRequest]
    /\ create_count = [c \in Calls |-> 0]
    /\ run_count = [c \in Calls |-> 0]
    /\ tool_calls = {}

instance_vars == << store_name, store_name_cache >>

\* ----------------------------------------------------------------- actions
\* Lines 73-78 up to the await: derive the ids and ask for the session.
RequestSession(c) ==
    /\ pc[c] = "not_started"
    /\ user_id' = [user_id EXCEPT ![c] = UserId(store_name)]
    /\ request' = [request EXCEPT ![c] =
         [key |-> SessionKey(store_name), held |-> SessionKey(store_name) \in sessions]]
    /\ create_count' = [create_count EXCEPT ![c] = @ + 1]
    /\ pc' = [pc EXCEPT ![c] = "creating"]
    /\ UNCHANGED << instance_vars, store_files, sessions, session, response_texts,
                    events, result, exc, outcome, run_count, tool_calls >>

\* create_session returns: the service holds the key, the call has its session.
\* (Asked for a key it already holds, the service either returns a session,
\* this action, or raises, CreateSessionRaise: both library behaviours exist.)
CreateSessionReturn(c) ==
    /\ pc[c] = "creating"
    /\ sessions' = sessions \cup { request[c].key }
    /\ session' = [session EXCEPT ![c] = request[c].key]
    /\ pc' = [pc EXCEPT ![c] = "session_created"]
    /\ UNCHANGED << instance_vars, store_files, user_id, response_texts, events,
                    result, exc, outcome, request, create_count, run_count,
                    tool_calls >>

Handle_keepsPartial(c, e) ==
    /\ exc' = [exc EXCEPT ![c] = e]
    /\ IF IsException(e)
         THEN /\ result' = [result EXCEPT ![c] =
                    IF response_texts[c] # <<>> THEN Join(response_texts[c])
                    ELSE ErrorText(e)]
              /\ outcome' = [outcome EXCEPT ![c] = "return"]
         ELSE /\ result' = result
              /\ outcome' = [outcome EXCEPT ![c] = "raise"]
    /\ pc' = [pc EXCEPT ![c] = "failed"]
\* Lines 105-109: except Exception as e: ... return the error string.  An
\* exception that is not an instance of Exception leaves through the frame.
Handle(c, e) ==
    /\ exc' = [exc EXCEPT ![c] = e]
    /\ IF IsException(e)
         THEN /\ result' = [result EXCEPT ![c] = ErrorText(e)]
              /\ outcome' = [outcome EXCEPT ![c] = "return"]
         ELSE /\ result' = result
              /\ outcome' = [outcome EXCEPT ![c] = "raise"]
    /\ pc' = [pc EXCEPT ![c] = "failed"]

CreateSessionRaise_retry(c, e) ==
    /\ pc[c] = "creating"
    /\ pc' = [pc EXCEPT ![c] = "not_started"]
    /\ UNCHANGED << instance_vars, store_files, sessions, user_id, session,
                    response_texts, events, result, exc, outcome, request,
                    create_count, run_count, tool_calls >>
\* create_session raises e.
CreateSessionRaise(c, e) ==
    /\ pc[c] = "creating"
    /\ Handle(c, e)
    /\ UNCHANGED << instance_vars, store_files, sessions, user_id, session,
                    response_texts, events, request, create_count, run_count,
                    tool_calls >>

\* Lines 81-93: build the message, response_texts = [], start run_async.
StartStream(c) ==
    /\ pc[c] = "session_created"
    /\ response_texts' = [response_texts EXCEPT ![c] = <<>>]
    /\ run_count' = [run_count EXCEPT ![c] = @ + 1]
    /\ pc' = [pc EXCEPT ![c] = "streaming"]
    /\ UNCHANGED << instance_vars, store_files, sessions, user_id, session, events,
                    result, exc, outcome, request, create_count, tool_calls >>

StreamYield_timeout(c, ev) ==
    /\ pc[c] = "streaming"
    /\ Handle(c, Exc("TimeoutError", "timeout"))
    /\ UNCHANGED << instance_vars, store_files, sessions, user_id, session,
                    response_texts, events, request, create_count, run_count,
                    tool_calls >>
\* The stream yields ev; lines 94-97 run on it.
StreamYield(c, ev) ==
    /\ pc[c] = "streaming"
    /\ events' = [events EXCEPT ![c] = Append(@, ev)]
    /\ response_texts' = [response_texts EXCEPT ![c] = @ \o EventTexts(ev)]
    /\ UNCHANGED << instance_vars, store_files, sessions, pc, user_id, session,
                    result, exc, outcome, request, create_count, run_count,
                    tool_calls >>

\* While the run is in progress the runtime invokes the agent's tool, which
\* is the wrapper of lines 37-39.
ToolCall(c) ==
    /\ pc[c] = "streaming"
    /\ \A t \in tool_calls : t.call # c
    /\ tool_calls' = tool_calls \cup
         { [call |-> c, store |-> list_files.store, cache |-> list_files.cache,
            records |-> list_files_tool(list_files.store, list_files.cache)] }
    /\ UNCHANGED << instance_vars, store_files, sessions, pc, user_id, session,
                    response_texts, events, result, exc, outcome, request,
                    create_count, run_count >>

\* The stream ends: lines 100-103.
StreamEnd(c) ==
    /\ pc[c] = "streaming"
    /\ result' = [result EXCEPT ![c] = ReplyText(response_texts[c])]
    /\ outcome' = [outcome EXCEPT ![c] = "return"]
    /\ pc' = [pc EXCEPT ![c] = "completed"]
    /\ UNCHANGED << instance_vars, store_files, sessions, user_id, session,
                    response_texts, events, exc, request, create_count, run_count,
                    tool_calls >>

\* The stream raises e (before the first event or after any number of them).
StreamRaise(c, e) ==
    /\ pc[c] = "streaming"
    /\ Handle(c, e)
    /\ UNCHANGED << instance_vars, store_files, sessions, user_id, session,
                    response_texts, events, request, create_count, run_count,
                    tool_calls >>

\* Every step call c can take, with the runtime's events drawn from evs and
\* the exceptions its collaborators raise drawn from excs; a stream yields at
\* most n events.
handle_list_files(c, evs, excs, n) ==
    \/ RequestSession(c)
    \/ CreateSessionReturn(c)
    \/ \E e \in excs : CreateSessionRaise(c, e)
    \/ StartStream(c)
    \/ \E ev \in evs : Len(events[c]) < n /\ StreamYield(c, ev)
    \/ ToolCall(c)
    \/ StreamEnd(c)
    \/ \E e \in excs : StreamRaise(c, e)

\* The instance under MaxCalls invocations that may overlap, over a store
\* that holds a file.
InitOverlap == Init /\ store_files = << FileRecord("report.pdf", "2024-01-01") >>

Next == \E c \in Calls : handle_list_files(c, OverlapEvents, OverlapRaisable, MaxOverlapEvents)

Spec == InitOverlap /\ [][Next]_vars

\* One invocation, with every event shape.
NextCall == handle_list_files(1, EventSet, Raisable, MaxEvents)

SpecCall == Init /\ [][NextCall]_vars

\* The steps of call c that the runtime and the event loop take once the call
\* has been made: the awaited session creation settles, the coroutine resumes,
\* and a finite stream yields, ends or raises.
RuntimeStep(c) ==
    \/ CreateSessionReturn(c)
    \/ \E e \in OverlapRaisable : CreateSessionRaise(c, e)
    \/ StartStream(c)
    \/ \E ev \in OverlapEvents : Len(events[c]) < MaxOverlapEvents /\ StreamYield(c, ev)
    \/ StreamEnd(c)
    \/ \E e \in OverlapRaisable : StreamRaise(c, e)

\* The overlapping invocations under a fair runtime whose streams are finite.
\* Termination does not depend on the constructor's inputs nor on the tool:
\* one instance, and the steps that move a call.
InitLive ==
    /\ Init
    /\ store_name = "docs"
    /\ store_name_cache = [n \in {"docs"} |-> "store_123"]
    /\ store_files = <<>>

NextLive == \E c \in Calls : RequestSession(c) \/ RuntimeStep(c)

SpecLive == InitLive /\ [][NextLive]_vars /\ \A c \in Calls : WF_vars(RuntimeStep(c))

\* ------------------------------------------------- vocabulary of the claims
\* The non-empty text fragments of one event, in order.
FragmentsOf(ev) ==
    IF ev.has_content
      THEN LET kept == SelectSeq(ev.parts, LAMBDA p : p.has_text /\ p.text # "")
           IN  [i \in 1..Len(kept) |-> kept[i].text]
      ELSE <<>>

\* The non-empty text fragments of a sequence of events, in arrival order.
RECURSIVE Fragments(_)
Fragments(evs) ==
    IF evs = <<>> THEN <<>>
    ELSE Fragments(SubSeq(evs, 1, Len(evs) - 1)) \o FragmentsOf(evs[Len(evs)])

\* The fragments of a non-empty sequence, one per line.
RECURSIVE NewlineJoin(_)
NewlineJoin(frags) ==
    IF Len(frags) = 1 THEN frags[1]
    ELSE NewlineJoin(SubSeq(frags, 1, Len(frags) - 1)) \o "\n" \o frags[Len(frags)]

Terminated(c) == pc[c] \in {"completed", "failed"}
RaisedInCreate(c) == pc[c] = "failed" /\ run_count[c] = 0
RaisedInStream(c) == pc[c] = "failed" /\ run_count[c] > 0
ToolGaveRecords(c) == \E t \in tool_calls : t.call = c /\ Len(t.records) >= 1

\* ------------------------------------------------------------------ claims
\* C1 (as stated): every call that has ended has returned a string, and when
\* session creation or the stream raised an exception with message m the
\* string is the error prefix followed by m.
C1_NeverPropagates ==
    \A c \in Calls :
        Terminated(c) =>
            /\ outcome[c] = "return"
            /\ pc[c] = "failed" => result[c] = ErrorPrefix \o exc[c].msg

\* C1 (amended): a call that ended without an exception returned a string; a
\* call in which session creation or the stream raised an instance of
\* Exception with message m returned the error prefix followed by m; an
\* exception that is not an instance of Exception (asyncio.CancelledError) is
\* not caught and leaves handle_list_files.
C1_ExceptionBecomesErrorText ==
    \A c \in Calls :
        /\ pc[c] = "completed" => outcome[c] = "return"
        /\ pc[c] = "failed" /\ IsException(exc[c]) =>
               outcome[c] = "return" /\ result[c] = ErrorPrefix \o exc[c].msg
        /\ pc[c] = "failed" /\ ~IsException(exc[c]) => outcome[c] = "raise"

C1_Witness ==
    \E c \in Calls :
        /\ RaisedInStream(c)
        /\ events[c] # <<>>
        /\ exc[c] = Exc("ValueError", "boom")
        /\ result[c] = "LIST_FILES_FAILED:boom"

\* C2: when the stream ended without an exception and carried text, the result
\* is the non-empty fragments of all its events, in arrival order, one per line.
C2_JoinInArrivalOrder ==
    \A c \in Calls :
        pc[c] = "completed" /\ Fragments(events[c]) # <<>> =>
            result[c] = NewlineJoin(Fragments(events[c]))

C2_Witness ==
    \E c \in Calls :
        /\ pc[c] = "completed"
        /\ events[c] = << Event(<< TextPart("a") >>),
                          Event(<< TextPart("b"), TextPart("c") >>) >>
        /\ result[c] = "a\nb\nc"

\* C3: when the stream ended without an exception, the result is the fallback
\* text exactly when the stream produced no non-empty fragment (a stream of no
\* events included), and the joined fragments otherwise.
C3_FallbackWhenNoFragments ==
    \A c \in Calls :
        pc[c] = "completed" =>
            IF \A i \in 1..Len(events[c]) : FragmentsOf(events[c][i]) = <<>>
              THEN result[c] = NoFilesText
              ELSE result[c] = NewlineJoin(Fragments(events[c]))

C3_Witness ==
    \E c \in Calls :
        /\ pc[c] = "completed"
        /\ events[c] = <<>>
        /\ result[c] = NoFilesText

\* C4 (as stated): a call in which the tool provider returned at least one
\* FileRecord never returns the fallback text.
C4_RecordsNeverFallback ==
    \A c \in Calls :
        ToolGaveRecords(c) /\ outcome[c] = "return" => result[c] # NoFilesText

\* C4 (amended): a call in which the tool provider returned at least one
\* FileRecord returns something other than the fallback text when the stream
\* raised an Exception, or ended having produced non-empty fragments whose
\* join is not that text; it returns the fallback text when the stream ended
\* without a non-empty fragment.
C4_NonFallbackNeedsText ==
    \A c \in Calls :
        ToolGaveRecords(c) /\ outcome[c] = "return" =>
            /\ pc[c] = "failed" => result[c] # NoFilesText
            /\ pc[c] = "completed" /\ Fragments(events[c]) # <<>>
                 /\ NewlineJoin(Fragments(events[c])) # NoFilesText
                   => result[c] # NoFilesText
            /\ pc[c] = "completed" /\ Fragments(events[c]) = <<>>
                   => result[c] = NoFilesText

C4_Witness ==
    \E c \in Calls :
        /\ ToolGaveRecords(c)
        /\ pc[c] = "completed"
        /\ events[c] = << Event(<< TextPart("a") >>) >>
        /\ result[c] = "a"

\* C5: no call asks for a session key the session service still holds from an
\* earlier call, each call asks once, and no two calls hold the same session.
C5_SessionPerCallNotReused ==
    \A c \in Calls :
        /\ create_count[c] <= 1
        /\ ~request[c].held
        /\ \A d \in Calls \ {c} :
               session[c] # NoSession => session[c] # session[d]

\* C6: the responder never changes the cache or the store identifier it was
\* built with, and every invocation of the tool provider is given that store
\* identifier and that cache.
C6_CacheReadOnly ==
    /\ [][store_name_cache' = store_name_cache /\ store_name' = store_name]_vars
    /\ [](\A t \in tool_calls :
              t.store = store_name /\ t.cache = store_name_cache)

C6_Witness ==
    \E c, d \in Calls :
        /\ pc[c] = "completed" /\ result[c] = NoFilesText
        /\ pc[d] = "failed"
        /\ \E t \in tool_calls : t.call = c
        /\ \E t \in tool_calls : t.call = d

\* C7: every session creation request carries the key derived from the store
\* identifier alone, so the requests of any two calls carry the identical key,
\* also when the calls overlap.
C7_SameKeyForSameStore ==
    \A c \in Calls :
        create_count[c] > 0 =>
            /\ request[c].key = [app_name |-> "file_manager",
                                 user_id |-> "user_" \o store_name,
                                 session_id |-> "list_files_" \o store_name]
            /\ \A d \in Calls : create_count[d] > 0 => request[d].key = request[c].key

C7_Witness ==
    \E c, d \in Calls :
        /\ c # d
        /\ pc[c] = "streaming"
        /\ pc[d] = "creating"
        /\ request[c].key = request[d].key
        /\ request[d].held

\* C8 (as stated): a call whose stream raised after fragments had been
\* accumulated returned the error prefix followed by the exception's message.
C8_ErrorTextAfterPartial ==
    \A c \in Calls :
        RaisedInStream(c) /\ response_texts[c] # <<>> =>
            outcome[c] = "return" /\ result[c] = ErrorPrefix \o exc[c].msg

\* C8 (amended): a call whose stream raised an instance of Exception after
\* fragments had been accumulated returned the error prefix followed by the
\* exception's message, and nothing of the fragments; when what was raised is
\* not an instance of Exception the call returned nothing at all.
C8_PartialDiscarded ==
    \A c \in Calls :
        RaisedInStream(c) /\ response_texts[c] # <<>> =>
            IF IsException(exc[c])
              THEN outcome[c] = "return" /\ result[c] = ErrorPrefix \o exc[c].msg
              ELSE outcome[c] = "raise" /\ result[c] = ""

C8_Witness ==
    \E c \in Calls :
        /\ RaisedInStream(c)
        /\ response_texts[c] = << "b", "c" >>
        /\ exc[c] = Exc("ValueError", "boom")
        /\ result[c] = "LIST_FILES_FAILED:boom"

\* The steps of the lifecycle: session creation is requested, it succeeds or
\* raises, the stream is started, it ends or raises.
LifecycleSteps ==
    { << "not_started", "creating" >>,
      << "creating", "session_created" >>,
      << "creating", "failed" >>,
      << "session_created", "streaming" >>,
      << "streaming", "completed" >>,
      << "streaming", "failed" >> }

\* C9: a call moves only along not-started, session-created, streaming,
\* completed or failed; the stream is started only by a call whose session
\* creation succeeded; session creation and the streaming run are each invoked
\* at most once per call; completed and failed are never left.
C9_LinearLifecycle ==
    /\ [][\A c \in Calls :
              pc'[c] # pc[c] => << pc[c], pc'[c] >> \in LifecycleSteps]_vars
    /\ [](\A c \in Calls :
              /\ create_count[c] <= 1
              /\ run_count[c] <= 1
              /\ run_count[c] > 0 => session[c] # NoSession
              /\ pc[c] \in {"streaming", "completed"} => run_count[c] = 1)

C9_Witness ==
    \E c, d \in Calls :
        /\ pc[c] = "completed" /\ run_count[c] = 1 /\ create_count[c] = 1
        /\ pc[d] = "failed" /\ run_count[d] = 0 /\ create_count[d] = 1

====
